---------------------------- MODULE Spec2Model ----------------------------
(***************************************************************************)
(* Model of the book catalogue scraper: the Collector (parser.py:          *)
(* fetch_page, parse_books, main) and the Reporter (analyze.py: the three  *)
(* filters, sort_data, display_results).                                   *)
(*                                                                         *)
(* Text is modelled as a sequence of one-character strings wherever the    *)
(* code looks inside it (price text, href, title, keyword, link); its      *)
(* characters are the printable ASCII ones and the two currency artifacts  *)
(* the code removes.  A float the Collector parses is kept as its decimal  *)
(* value (sign, digits, exponent), nan or a signed infinity.  The rows the *)
(* Reporter is run on hold prices of at most two fractional digits,        *)
(* counted in hundredths of a pound.  Python's None is the empty sequence  *)
(* and a present value v is <<v>>.                                         *)
(***************************************************************************)
EXTENDS Integers, Sequences, FiniteSets, TLC

VARIABLES
    pc,          \* position of the running tool
    entry,       \* the entry point of this run: "fetch_page", "parser" (its
                 \* main), "analyze" (its main), "functions" (direct calls)
    num_pages,   \* parse_books: the page count N (args.pages)
    page_num,    \* parse_books: the loop variable
    url,         \* the URL handed to fetch_page
    retry,       \* fetch_page: maximum number of attempts
    attempt,     \* fetch_page: the loop variable
    soup,        \* fetch_page's result: None or <<document>>
    books,       \* parse_books: soup.find_all('article', class_='product_pod')
    book_idx,    \* parse_books: position of the inner loop in books
    all_books,   \* parse_books: the accumulated records
    log,         \* every GET, printed line and sleep so far, in order
    calls,       \* every fetch_page call so far: [page, url]
    csv,         \* the output file: None, or <<header and rows>>
    csv_writes,  \* how many times the output file was written
    exit_status, \* None while running, <<n>> once the process ended with status n
    df,          \* analyze: the current table
    loaded,      \* analyze: the table load_data returned
    args,        \* analyze: what parse_args returned, or the values the
                 \* filters called so far were given
    applied,     \* analyze: the filters that have returned
    last,        \* analyze: the latest call: [op, arg, input, output, raised]
    out          \* analyze: what display_results printed (None before)

vars == <<pc, entry, num_pages, page_num, url, retry, attempt, soup, books,
          book_idx, all_books, log, calls, csv, csv_writes, exit_status,
          df, loaded, args, applied, last, out>>

collectorVars == <<num_pages, page_num, url, retry, attempt, soup, books,
                   book_idx, all_books, log, calls, csv, csv_writes,
                   exit_status>>

reporterVars == <<df, loaded, args, applied, last, out>>

-----------------------------------------------------------------------------
(* Bounds of the model *)

MaxRetry == 4
MaxPages == 3
MaxRows == 2

(* Program constants *)

DefaultRetry == 3
RetryDelay == 2
PageDelay == 1
TitleWidth == 50
LinkWidth == 40

-----------------------------------------------------------------------------
(* Generic helpers *)

None == <<>>
Some(v) == <<v>>

\* Recursion runs over an index, never over a shortened copy of the sequence.

RECURSIVE SumUpTo(_, _)
SumUpTo(s, n) == IF n = 0 THEN 0 ELSE SumUpTo(s, n - 1) + s[n]
SumSeq(s) == SumUpTo(s, Len(s))

RECURSIVE ConcatUpTo(_, _)
ConcatUpTo(ss, n) == IF n = 0 THEN <<>> ELSE ConcatUpTo(ss, n - 1) \o ss[n]
Concat(ss) == ConcatUpTo(ss, Len(ss))

Indices(s, P(_)) == {i \in 1..Len(s) : P(s[i])}

Digits == <<"0", "1", "2", "3", "4", "5", "6", "7", "8", "9">>
IsDigit(c) == \E i \in 1..Len(Digits) : Digits[i] = c
DigitValue(c) == (CHOOSE i \in 1..Len(Digits) : Digits[i] = c) - 1

RECURSIVE Decimal(_)
\* str(n) for n >= 0, as used by the f-strings
Decimal(n) == IF n < Len(Digits) THEN <<Digits[n + 1]>>
              ELSE Decimal(n \div Len(Digits)) \o <<Digits[(n % Len(Digits)) + 1]>>

RECURSIVE NumberUpTo(_, _)
NumberUpTo(s, n) == IF n = 0 THEN 0
                    ELSE Len(Digits) * NumberUpTo(s, n - 1) + DigitValue(s[n])
\* the value of a string of digits
Number(s) == NumberUpTo(s, Len(s))

\* the printable ASCII characters in code order, from chr(32); the double
\* quote, the backslash and the backtick, which no text of the model holds,
\* are named
Printable ==
    <<" ", "!", "QUOTE", "#", "$", "%", "&", "'", "(", ")", "*", "+", ",", "-", ".", "/",
      "0", "1", "2", "3", "4", "5", "6", "7", "8", "9", ":", ";", "<", "=", ">", "?",
      "@", "A", "B", "C", "D", "E", "F", "G", "H", "I", "J", "K", "L", "M", "N", "O",
      "P", "Q", "R", "S", "T", "U", "V", "W", "X", "Y", "Z", "[", "BACKSLASH", "]", "^", "_",
      "BACKTICK", "a", "b", "c", "d", "e", "f", "g", "h", "i", "j", "k", "l", "m", "n", "o",
      "p", "q", "r", "s", "t", "u", "v", "w", "x", "y", "z", "{", "|", "}", "~">>

CodePoint == [c \in {Printable[i] : i \in 1..Len(Printable)} |->
                 31 + CHOOSE i \in 1..Len(Printable) : Printable[i] = c]

\* ord(c) of a printable ASCII character
ord(c) == CodePoint[c]

\* c.lower()
LowerChar(c) ==
    IF c \in DOMAIN CodePoint /\ ord(c) >= ord("A") /\ ord(c) <= ord("Z")
    THEN Printable[ord(c) + (ord("a") - ord("A")) - 31] ELSE c

Lower(s) == [i \in 1..Len(s) |-> LowerChar(s[i])]

\* whether old occurs in s at position i
OccursAt(s, old, i) ==
    /\ i + Len(old) - 1 <= Len(s)
    /\ \A k \in 1..Len(old) : s[i + k - 1] = old[k]

RECURSIVE ReplaceFrom(_, _, _)
ReplaceFrom(s, old, i) ==
    IF i > Len(s) THEN <<>>
    ELSE IF OccursAt(s, old, i) THEN ReplaceFrom(s, old, i + Len(old))
    ELSE <<s[i]>> \o ReplaceFrom(s, old, i + 1)

\* str.replace(old, ''): the leftmost non-overlapping occurrences are removed
\* (for a one-character old, every occurrence of that character)
Replace(s, old) ==
    IF Len(old) = 1 THEN SelectSeq(s, LAMBDA c : c # old[1])
    ELSE ReplaceFrom(s, old, 1)

\* str.strip() of a text whose only whitespace is " "
Strip(s) ==
    LET inked == {i \in 1..Len(s) : s[i] # " "}
    IN  IF inked = {} THEN <<>>
        ELSE SubSeq(s, CHOOSE i \in inked : \A j \in inked : i <= j,
                       CHOOSE i \in inked : \A j \in inked : j <= i)

-----------------------------------------------------------------------------
(* parser.py: field extraction *)

base_url == <<"h", "t", "t", "p", "s", ":", "/", "/", "b", "o", "o", "k", "s", ".",
              "t", "o", "s", "c", "r", "a", "p", "e", ".", "c", "o", "m">>
CataloguePath == <<"/", "c", "a", "t", "a", "l", "o", "g", "u", "e", "/">>
PagePrefix == <<"/", "c", "a", "t", "a", "l", "o", "g", "u", "e", "/", "p", "a", "g", "e", "-">>
PageSuffix == <<".", "h", "t", "m", "l">>
ParentMarker == <<".", ".", "/">>

\* f"{base_url}/catalogue/page-{page_num}.html" (both branches of the if are the same)
PageUrl(base, n) == base \o PagePrefix \o Decimal(n) \o PageSuffix

\* price_text.replace('£', '').replace('Â', '').strip()
CleanPrice(price_text) == Strip(Replace(Replace(price_text, <<"£">>), <<"Â">>))

\* float(s), for a text s of printable ASCII characters.  The grammar:
\*     [sign] ("inf" | "infinity" | "nan")                 in any letter case
\*     [sign] (digitpart ["." [digitpart]] | "." digitpart) [("e" | "E") [sign] digitpart]
\*     digitpart = digit (["_"] digit)*

Sign(s) == IF s # <<>> /\ s[1] = "-" THEN -1 ELSE 1
Unsigned(s) == IF s # <<>> /\ (s[1] = "+" \/ s[1] = "-") THEN SubSeq(s, 2, Len(s)) ELSE s

IsDigitPart(s) ==
    /\ s # <<>>
    /\ \A i \in 1..Len(s) : IsDigit(s[i]) \/ s[i] = "_"
    /\ IsDigit(s[1]) /\ IsDigit(s[Len(s)])
    /\ \A i \in 1..(Len(s) - 1) : ~(s[i] = "_" /\ s[i + 1] = "_")

WithoutUnderscores(s) == SelectSeq(s, LAMBDA c : c # "_")

Infinities == {<<"i", "n", "f">>, <<"i", "n", "f", "i", "n", "i", "t", "y">>}
NotANumber == <<"n", "a", "n">>

\* an unsigned literal cut at its first exponent marker and its first point
FloatParts(s) ==
    LET marks == {i \in 1..Len(s) : s[i] = "e" \/ s[i] = "E"}
        m == IF marks = {} THEN Len(s) + 1 ELSE CHOOSE i \in marks : \A j \in marks : i <= j
        mantissa == SubSeq(s, 1, m - 1)
        dots == {i \in 1..Len(mantissa) : mantissa[i] = "."}
        d == IF dots = {} THEN Len(mantissa) + 1 ELSE CHOOSE i \in dots : \A j \in dots : i <= j
    IN  [has_exp |-> marks # {},
         exponent |-> SubSeq(s, m + 1, Len(s)),
         has_dot |-> dots # {},
         whole |-> SubSeq(mantissa, 1, d - 1),
         frac |-> SubSeq(mantissa, d + 1, Len(mantissa))]

IsDecimalLiteral(s) ==
    LET p == FloatParts(s)
    IN  /\ \/ IsDigitPart(p.whole) /\ (p.frac = <<>> \/ IsDigitPart(p.frac))
           \/ p.whole = <<>> /\ p.has_dot /\ IsDigitPart(p.frac)
        /\ p.has_exp => IsDigitPart(Unsigned(p.exponent))

\* whether float(s) returns (it raises ValueError otherwise)
IsFloatLiteral(s) ==
    \/ Lower(Unsigned(s)) \in Infinities
    \/ Lower(Unsigned(s)) = NotANumber
    \/ IsDecimalLiteral(Unsigned(s))

RECURSIVE Normal(_, _)
\* digits * 10^exp without trailing zeros in digits
Normal(digits, exp) ==
    IF digits = 0 THEN [digits |-> 0, exp |-> 0]
    ELSE IF digits % 10 = 0 THEN Normal(digits \div 10, exp + 1)
    ELSE [digits |-> digits, exp |-> exp]

\* float(s) of a literal: nan, a signed infinity, or the signed decimal
\* digits * 10^exp.  Exact for the literals a double holds to all their
\* digits: at most nine significant digits, no overflow and no underflow.
FloatValue(s) ==
    LET u == Unsigned(s)
        p == FloatParts(u)
        w == WithoutUnderscores(p.whole)
        f == WithoutUnderscores(p.frac)
        e == IF p.has_exp
             THEN Sign(p.exponent) * Number(WithoutUnderscores(Unsigned(p.exponent)))
             ELSE 0
        n == Normal(Number(w \o f), e - Len(f))
    IN  IF Lower(u) = NotANumber
        THEN [kind |-> "nan", sign |-> 1, digits |-> 0, exp |-> 0]
        ELSE IF Lower(u) \in Infinities
        THEN [kind |-> "inf", sign |-> Sign(s), digits |-> 0, exp |-> 0]
        ELSE [kind |-> "finite", sign |-> Sign(s), digits |-> n.digits, exp |-> n.exp]

parse_price(price_text) == FloatValue(CleanPrice(price_text))

rating_map == <<"One", "Two", "Three", "Four", "Five">>

\* the first key of rating_map, in its order, that is an element of the class list
parse_rating(rating_class) ==
    LET hits == {k \in 1..Len(rating_map) :
                    \E i \in 1..Len(rating_class) : rating_class[i] = rating_map[k]}
    IN  IF hits = {} THEN 0 ELSE CHOOSE k \in hits : \A j \in hits : k <= j

\* The statement of the try block that raises for this book, None when none
\* does: title (book.h3.a['title']), price (.text of a missing element, or
\* float() of a non-numeric text), link (book.h3.a['href']), rating (['class']
\* of a missing element).
ExtractFailure(book) ==
    IF book.title = None THEN Some("title")
    ELSE IF book.price_color = None THEN Some("price")
    ELSE IF ~IsFloatLiteral(CleanPrice(book.price_color[1])) THEN Some("price")
    ELSE IF book.href = None THEN Some("link")
    ELSE IF book.star_rating = None THEN Some("rating")
    ELSE None

\* the dict appended to all_books
BookRecord(book) ==
    [title |-> book.title[1],
     price |-> parse_price(book.price_color[1]),
     rating |-> parse_rating(book.star_rating[1]),
     link |-> base_url \o CataloguePath \o Replace(book.href[1], ParentMarker)]

-----------------------------------------------------------------------------
(* The remote catalogue: the item fragments and documents a GET can return *)

BookLight ==
    [title |-> Some(<<"A", " ", "L", "i", "g", "h", "t">>),
     price_color |-> Some(<<"£", "5", "1", ".", "7", "7">>),
     href |-> Some(<<"a", "_", "1", "/", "i", ".", "h", "t", "m", "l">>),
     star_rating |-> Some(<<"star-rating", "Three">>)]

BookSharp ==
    [title |-> Some(<<"S", "h", "a", "r", "p">>),
     price_color |-> Some(<<" ", "Â", "£", "1", "3", ".", "9", " ">>),
     href |-> Some(<<".", ".", "/", ".", ".", "/", "s", "_", "2", "/", "i", ".", "h", "t", "m", "l">>),
     star_rating |-> Some(<<"star-rating">>)]

BookNoTitle == [BookLight EXCEPT !.title = None]
BookBadPrice == [BookSharp EXCEPT !.price_color = Some(<<"£", "N", "/", "A">>)]
BookNoPrice == [BookLight EXCEPT !.price_color = None]
BookNoLink == [BookSharp EXCEPT !.href = None]
BookNoRating == [BookLight EXCEPT !.star_rating = None]
BookNanPrice == [BookLight EXCEPT !.price_color = Some(<<"£", "n", "a", "n">>)]
BookExpPrice == [BookSharp EXCEPT !.price_color = Some(<<"£", "1", "e", "2">>)]

Documents ==
    << <<BookNanPrice, BookExpPrice>>,
       <<BookBadPrice, BookLight, BookNoTitle, BookSharp>>,
       <<BookNoLink, BookNoRating, BookNoPrice>>,
       <<>> >>

CatalogueItems == UNION {{doc[i] : i \in 1..Len(doc)} : doc \in {Documents[d] : d \in 1..Len(Documents)}}

\* lines 90-114 for each item of the catalogue: the statement that raised (or
\* None) and the dict that is appended when none did
TryBlock ==
    [book \in CatalogueItems |->
        [failure |-> ExtractFailure(book),
         record |-> IF ExtractFailure(book) = None THEN Some(BookRecord(book)) ELSE None]]

-----------------------------------------------------------------------------
(* parser.py: fetch_page *)

GetEvent(ok, resp) == [ev |-> "GET", ok |-> ok, resp |-> resp]
SleepEvent(secs) == [ev |-> "sleep", secs |-> secs]
PrintEvent(msg, n) == [ev |-> "print", msg |-> msg, n |-> n]

\* where fetch_page returns to
FetchReturn == IF entry = "fetch_page" THEN "done" ELSE "after_fetch"

\* line 54: a failed attempt is followed by the retry delay unless it was the last
SleepsAfterEvery(a, m) == a < m
SleepsAfter(a, m) == a < m - 1

\* an attempt whose GET succeeds: the parsed document is returned at once
fetch_page_ok ==
    /\ pc = "fetch_page"
    /\ attempt < retry
    /\ \E d \in 1..Len(Documents) :
          /\ log' = Append(log, GetEvent(TRUE, d))
          /\ soup' = Some(Documents[d])
    /\ pc' = FetchReturn
    /\ UNCHANGED <<entry, num_pages, page_num, url, retry, attempt, books,
                   book_idx, all_books, calls, csv, csv_writes, exit_status>>
    /\ UNCHANGED reporterVars

\* an attempt whose GET raises RequestException
fetch_page_fail ==
    /\ pc = "fetch_page"
    /\ attempt < retry
    /\ IF SleepsAfter(attempt, retry)
       THEN /\ log' = log \o <<GetEvent(FALSE, 0), PrintEvent("attempt", attempt + 1),
                               SleepEvent(RetryDelay)>>
            /\ attempt' = attempt + 1
            /\ UNCHANGED <<pc, soup>>
       ELSE /\ log' = log \o <<GetEvent(FALSE, 0), PrintEvent("attempt", attempt + 1),
                               PrintEvent("gave_up", retry)>>
            /\ soup' = None
            /\ pc' = FetchReturn
            /\ UNCHANGED attempt
    /\ UNCHANGED <<entry, num_pages, page_num, url, retry, books,
                   book_idx, all_books, calls, csv, csv_writes, exit_status>>
    /\ UNCHANGED reporterVars

\* range(retry) is exhausted without a return: the function ends, returning None
fetch_page_end ==
    /\ pc = "fetch_page"
    /\ attempt >= retry
    /\ soup' = None
    /\ pc' = FetchReturn
    /\ UNCHANGED <<entry, num_pages, page_num, url, retry, attempt, books,
                   book_idx, all_books, log, calls, csv, csv_writes, exit_status>>
    /\ UNCHANGED reporterVars

-----------------------------------------------------------------------------
(* parser.py: parse_books *)

\* for page_num in range(1, num_pages + 1): the next page is announced and
\* fetch_page(url) is called with its default retry count
parse_books_page ==
    /\ pc = "parse_books"
    /\ page_num <= num_pages
    /\ url' = PageUrl(base_url, page_num)
    /\ log' = Append(log, PrintEvent("page", page_num))
    /\ calls' = Append(calls, [page |-> page_num, url |-> url'])
    /\ retry' = DefaultRetry
    /\ attempt' = 0
    /\ pc' = "fetch_page"
    /\ UNCHANGED <<entry, num_pages, page_num, soup, books, book_idx, all_books,
                   csv, csv_writes, exit_status>>
    /\ UNCHANGED reporterVars

\* lines 83-84: where the page loop goes on when fetch_page returned None
AfterSkipBreak(p, n) == n + 1
AfterSkip(p, n) == p + 1

\* if soup is None: continue
parse_books_skip ==
    /\ pc = "after_fetch"
    /\ soup = None
    /\ page_num' = AfterSkip(page_num, num_pages)
    /\ pc' = "parse_books"
    /\ UNCHANGED <<entry, num_pages, url, retry, attempt, soup, books, book_idx,
                   all_books, log, calls, csv, csv_writes, exit_status>>
    /\ UNCHANGED reporterVars

\* books = soup.find_all('article', class_='product_pod')
parse_books_find_all ==
    /\ pc = "after_fetch"
    /\ soup # None
    /\ books' = soup[1]
    /\ book_idx' = 1
    /\ pc' = "books"
    /\ UNCHANGED <<entry, num_pages, page_num, url, retry, attempt, soup,
                   all_books, log, calls, csv, csv_writes, exit_status>>
    /\ UNCHANGED reporterVars

\* lines 112-114: where the book loop goes on after an extraction raised
AfterFailureBreak(i, n) == n + 1
AfterFailure(i, n) == i + 1

\* one iteration of "for book in books": the try block and its handler
parse_books_book ==
    /\ pc = "books"
    /\ book_idx <= Len(books)
    /\ LET tried == TryBlock[books[book_idx]]
       IN  IF tried.failure = None
           THEN /\ all_books' = Append(all_books, tried.record[1])
                /\ book_idx' = book_idx + 1
                /\ UNCHANGED log
           ELSE /\ log' = Append(log, PrintEvent("book_error", tried.failure[1]))
                /\ book_idx' = AfterFailure(book_idx, Len(books))
                /\ UNCHANGED all_books
    /\ UNCHANGED <<pc, entry, num_pages, page_num, url, retry, attempt, soup,
                   books, csv, csv_writes, exit_status, calls>>
    /\ UNCHANGED reporterVars

\* lines 116-117: the page's count is printed and the pacing delay is slept
parse_books_page_end ==
    /\ pc = "books"
    /\ book_idx > Len(books)
    /\ log' = log \o <<PrintEvent("found", Len(books)), SleepEvent(PageDelay)>>
    /\ page_num' = page_num + 1
    /\ pc' = "parse_books"
    /\ UNCHANGED <<entry, num_pages, url, retry, attempt, soup, books, book_idx,
                   all_books, calls, csv, csv_writes, exit_status>>
    /\ UNCHANGED reporterVars

\* the page loop is over: return pd.DataFrame(all_books)
parse_books_return ==
    /\ pc = "parse_books"
    /\ page_num > num_pages
    /\ pc' = "main"
    /\ UNCHANGED <<entry>>
    /\ UNCHANGED collectorVars
    /\ UNCHANGED reporterVars

-----------------------------------------------------------------------------
(* parser.py: main *)

\* df.empty
emptyNever(records) == FALSE
empty(records) == records = <<>>

CsvHeader == <<"title", "price", "rating", "link">>

\* df.to_csv(args.output, index=False): the header row, then one row per record
to_csv(records) ==
    <<CsvHeader>> \o [i \in 1..Len(records) |->
        <<records[i].title, records[i].price, records[i].rating, records[i].link>>]

\* lines 139-141
main_no_data ==
    /\ pc = "main"
    /\ empty(all_books)
    /\ log' = Append(log, PrintEvent("no_data", 0))
    /\ exit_status' = Some(1)
    /\ pc' = "done"
    /\ UNCHANGED <<entry, num_pages, page_num, url, retry, attempt, soup, books,
                   book_idx, all_books, calls, csv, csv_writes>>
    /\ UNCHANGED reporterVars

\* lines 144-150
main_save ==
    /\ pc = "main"
    /\ ~empty(all_books)
    /\ csv' = Some(to_csv(all_books))
    /\ csv_writes' = csv_writes + 1
    /\ log' = Append(log, PrintEvent("saved", Len(all_books)))
    /\ exit_status' = Some(0)
    /\ pc' = "done"
    /\ UNCHANGED <<entry, num_pages, page_num, url, retry, attempt, soup, books,
                   book_idx, all_books, calls>>
    /\ UNCHANGED reporterVars

-----------------------------------------------------------------------------
(* analyze.py: text helpers *)

\* a <= b for Python strings: decided by the code points at the first position
\* where they differ, a prefix of the other coming first
StrLessEq(a, b) ==
    LET shorter == IF Len(a) <= Len(b) THEN Len(a) ELSE Len(b)
        differ == {i \in 1..shorter : a[i] # b[i]}
        first == CHOOSE i \in differ : \A j \in differ : i <= j
    IN  IF differ = {} THEN Len(a) <= Len(b) ELSE ord(a[first]) < ord(b[first])

Ellipsis == <<".", ".", ".">>

\* x[:width] + '...' if len(x) > width else x
Truncate(x, width) == IF Len(x) > width THEN SubSeq(x, 1, width) \o Ellipsis ELSE x

\* f"£{x:.2f}" of a price counted in hundredths
FormatPrice(x) ==
    <<"£">> \o Decimal(x \div 100) \o <<".">>
            \o <<Digits[((x % 100) \div 10) + 1], Digits[(x % 10) + 1]>>

-----------------------------------------------------------------------------
(* analyze.py: the table *)

Columns == {"title", "price", "rating", "link"}

\* a missing title (NaN after read_csv); no title read from a CSV is the empty string
NA == <<>>

\* a DataFrame: its rows and the dtype of its title column, which the rows
\* left by a selection no longer tell
DataFrame(rows, title_dtype) == [rows |-> rows, title_dtype |-> title_dtype]

\* pd.read_csv: a title column that has rows and not one value is read as
\* float64 (all NaN), any other as object
read_csv(rows) ==
    DataFrame(rows, IF rows # <<>> /\ \A i \in 1..Len(rows) : rows[i].title = NA
                    THEN "float64" ELSE "object")

\* how a call ends: it returns a value or raises an exception
Returned(v) == [raised |-> None, value |-> Some(v)]
Raised(e) == [raised |-> Some(e), value |-> None]

-----------------------------------------------------------------------------
(* analyze.py: the filters *)

\* Python's truth value of an optional argument: None, 0 and 0.0 are false,
\* and so are None and ''
TruthyNumber(opt) == opt # None /\ opt[1] # 0
TruthyText(opt) == opt # None /\ opt[1] # <<>>

\* str.contains(keyword, case=False, na=False) on one title, for a keyword of
\* letters and spaces (no regular-expression operators)
TitleContains(title, keyword) ==
    /\ title # NA
    /\ \E i \in 1..Len(title) + 1 : OccursAt(Lower(title), Lower(keyword), i)

filter_by_price(frame, max_price) ==
    IF TruthyNumber(max_price)
    THEN Returned([frame EXCEPT !.rows = SelectSeq(frame.rows, LAMBDA r : r.price <= max_price[1])])
    ELSE Returned(frame)

\* df['title'].str raises AttributeError when the column is not of strings
filter_by_keyword(frame, keyword) ==
    IF ~TruthyText(keyword) THEN Returned(frame)
    ELSE IF frame.title_dtype # "object" THEN Raised("AttributeError")
    ELSE Returned([frame EXCEPT !.rows = SelectSeq(frame.rows, LAMBDA r : TitleContains(r.title, keyword[1]))])

filter_by_rating(frame, min_rating) ==
    IF TruthyNumber(min_rating)
    THEN Returned([frame EXCEPT !.rows = SelectSeq(frame.rows, LAMBDA r : r.rating >= min_rating[1])])
    ELSE Returned(frame)

\* the filter named op
ApplyFilter(op, frame, arg) ==
    CASE op = "price" -> filter_by_price(frame, arg)
      [] op = "keyword" -> filter_by_keyword(frame, arg)
      [] op = "rating" -> filter_by_rating(frame, arg)

\* whether the filter named op takes its if branch, and prints its line
Applies(op, arg) == IF op = "keyword" THEN TruthyText(arg) ELSE TruthyNumber(arg)

-----------------------------------------------------------------------------
(* analyze.py: sort_data *)

\* isna() of the sort key of row r
KeyIsNA(r, by) == by = "title" /\ r.title = NA

\* key(a) <= key(b)
KeyLessEq(a, b, by) ==
    IF by \in {"price", "rating"} THEN a[by] <= b[by] ELSE StrLessEq(a[by], b[by])

Arrangements(n) == {p \in [1..n -> 1..n] : \A i \in 1..n : \A j \in 1..n : p[i] = p[j] => i = j}

\* df.sort_values(by=by, ascending=ascending): the default kind is 'quicksort',
\* which is not a stable sort, so every arrangement of the rows that is in key
\* order is a possible result; rows whose key is missing go last, in their
\* original order (na_position='last').
sort_values(frame, by, ascending) ==
    LET table == frame.rows
        n == Len(table)
        na(i) == KeyIsNA(table[i], by)
        InOrder(p) ==
            \A i \in 1..n : \A j \in 1..n : i < j =>
                /\ na(p[i]) => na(p[j])
                /\ na(p[i]) /\ na(p[j]) => p[i] < p[j]
                /\ ~na(p[i]) /\ ~na(p[j]) =>
                      IF ascending THEN KeyLessEq(table[p[i]], table[p[j]], by)
                      ELSE KeyLessEq(table[p[j]], table[p[i]], by)
    IN  {[frame EXCEPT !.rows = [i \in 1..n |-> table[p[i]]]] :
            p \in {q \in Arrangements(n) : InOrder(q)}}

\* the possible results of sort_data(df, sort_by, ascending)
sort_dataDefaultPrice(frame, sort_by, ascending) ==
    sort_values(frame, IF sort_by \in Columns THEN sort_by ELSE "price", ascending)
sort_data(frame, sort_by, ascending) ==
    IF sort_by \in Columns THEN sort_values(frame, sort_by, ascending) ELSE {frame}

-----------------------------------------------------------------------------
(* analyze.py: display_results *)

\* df.head(n): the first n rows, or all but the last -n rows when n < 0
head(table, n) ==
    IF n >= 0
    THEN SubSeq(table, 1, IF n < Len(table) THEN n ELSE Len(table))
    ELSE SubSeq(table, 1, IF Len(table) + n > 0 THEN Len(table) + n ELSE 0)

Column(table, name) == [i \in 1..Len(table) |-> table[i][name]]

\* Series.mean(), kept exact: the sum and the count it divides by
mean(values) == [sum |-> SumSeq(values), count |-> Len(values)]

min(values) == CHOOSE v \in {values[i] : i \in 1..Len(values)} :
                   \A i \in 1..Len(values) : v <= values[i]
max(values) == CHOOSE v \in {values[i] : i \in 1..Len(values)} :
                   \A i \in 1..Len(values) : v >= values[i]

Silent == [notice |-> FALSE, raised |-> FALSE, found |-> None, shown |-> None,
           table |-> <<>>, stats |-> None]

\* what display_results(df, top_n) prints.  On an empty table only the notice.
\* Otherwise len(x) of a missing title among the displayed rows raises
\* TypeError before anything is printed; else the counts, the formatted rows
\* and the statistics of the whole table.
display_results(frame, top_n) ==
    LET table == frame.rows
        rows == head(table, top_n)
    IN  IF table = <<>> THEN [Silent EXCEPT !.notice = TRUE]
        ELSE IF \E i \in 1..Len(rows) : rows[i].title = NA
        THEN [Silent EXCEPT !.raised = TRUE]
        ELSE [notice |-> FALSE,
              raised |-> FALSE,
              found |-> Some(Len(table)),
              shown |-> Some(Len(rows)),
              table |-> [i \in 1..Len(rows) |->
                            [title |-> Truncate(rows[i].title, TitleWidth),
                             price |-> FormatPrice(rows[i].price),
                             rating |-> rows[i].rating,
                             link |-> Truncate(rows[i].link, LinkWidth)]],
              stats |-> Some([mean_price |-> mean(Column(table, "price")),
                              min_price |-> min(Column(table, "price")),
                              max_price |-> max(Column(table, "price")),
                              mean_rating |-> mean(Column(table, "rating"))])]

-----------------------------------------------------------------------------
(* analyze.py: the stored records, the command line, main and load_data *)

RowLight ==
    [title |-> <<"A", " ", "L", "i", "g", "h", "t">>,
     price |-> 500,
     rating |-> 4,
     link |-> base_url \o CataloguePath \o <<"a", "_", "1", "/", "i", ".", "h", "t", "m", "l">>]

RowUntitled ==
    [title |-> NA,
     price |-> 500,
     rating |-> 2,
     link |-> base_url \o CataloguePath \o <<"b", "/", "i">>]

RowSharp ==
    [title |-> <<"S", "h", "a", "r", "p">> \o [i \in 1..(TitleWidth - 4) |-> "s"],
     price |-> 325,
     rating |-> 4,
     link |-> base_url \o CataloguePath \o <<"s", "_", "2", "/", "i", ".", "h", "t", "m", "l">>]

Rows == {RowLight, RowUntitled, RowSharp}

\* the record sequences the input file can hold
Tables == UNION {[1..n -> Rows] : n \in 0..MaxRows}

\* the values of --max_price, --keyword, --min_rating, --sort, --order and
\* --top on a command line, and of the same parameters in a direct call
MaxPrices == {None, Some(0), Some(400), Some(500)}
Keywords == {None, Some(<<>>), Some(<<"l", "i", "g", "h", "t">>)}
MinRatings == {None, Some(0), Some(3)}
SortFields == {"price", "rating", "title", "link", "name"}
Orders == {"asc", "desc", "up"}
Tops == {-1, 0, 1, 10}

\* choices=[1, 2, 3, 4, 5], choices=['price', 'rating'], choices=['asc', 'desc']
RatingChoices == 1..5
SortChoices == {"price", "rating"}
OrderChoices == {"asc", "desc"}

Filters == {"price", "keyword", "rating"}

\* the order in which main calls the filters
MainOrder == <<"price", "keyword", "rating">>

FilterValues(op) ==
    CASE op = "price" -> MaxPrices
      [] op = "keyword" -> Keywords
      [] op = "rating" -> MinRatings

\* main up to the call of load_data: parser.parse_args() ends the process with
\* status 2 when a value is not among its option's choices
parse_args ==
    /\ pc = "parse_args"
    /\ \E max_price \in MaxPrices : \E min_rating \in MinRatings :
       \E keyword \in Keywords : \E sort_by \in SortFields :
       \E order \in Orders : \E top \in Tops :
          IF /\ min_rating = None \/ min_rating[1] \in RatingChoices
             /\ sort_by \in SortChoices
             /\ order \in OrderChoices
          THEN /\ args' = [price |-> max_price, keyword |-> keyword,
                           rating |-> min_rating, sort |-> Some(sort_by),
                           order |-> Some(order), top |-> Some(top)]
               /\ log' = Append(log, PrintEvent("loading", 0))
               /\ pc' = "load_data"
               /\ UNCHANGED exit_status
          ELSE /\ log' = Append(log, PrintEvent("invalid_choice", 0))
               /\ exit_status' = Some(2)
               /\ pc' = "done"
               /\ UNCHANGED args
    /\ UNCHANGED <<entry, num_pages, page_num, url, retry, attempt, soup, books,
                   book_idx, all_books, calls, csv, csv_writes>>
    /\ UNCHANGED <<df, loaded, applied, last, out>>

\* load_data, lines 24-27: the file does not exist
load_data_missing ==
    /\ pc = "load_data"
    /\ log' = log \o <<PrintEvent("file_not_found", 0), PrintEvent("run_parser_first", 0)>>
    /\ exit_status' = Some(1)
    /\ pc' = "done"
    /\ UNCHANGED <<entry, num_pages, page_num, url, retry, attempt, soup, books,
                   book_idx, all_books, calls, csv, csv_writes>>
    /\ UNCHANGED reporterVars

\* load_data, lines 32-34: pd.read_csv raises
load_data_unreadable ==
    /\ pc = "load_data"
    /\ log' = Append(log, PrintEvent("read_error", 0))
    /\ exit_status' = Some(1)
    /\ pc' = "done"
    /\ UNCHANGED <<entry, num_pages, page_num, url, retry, attempt, soup, books,
                   book_idx, all_books, calls, csv, csv_writes>>
    /\ UNCHANGED reporterVars

\* load_data, lines 29-31: the table is read; main then prints its length
load_data_ok ==
    /\ pc = "load_data"
    /\ \E rows \in Tables :
          /\ loaded' = read_csv(rows)
          /\ df' = read_csv(rows)
          /\ log' = IF entry = "analyze" THEN Append(log, PrintEvent("loaded", Len(rows)))
                    ELSE log
    /\ pc' = "filters"
    /\ UNCHANGED <<entry, num_pages, page_num, url, retry, attempt, soup, books,
                   book_idx, all_books, calls, csv, csv_writes, exit_status>>
    /\ UNCHANGED <<args, applied, last, out>>

\* one of the three filters is called on the current table: by main with the
\* parsed value, in main's order, or directly with any value.  An exception
\* ends the run; main then ends with a traceback and status 1.
Filter(op) ==
    /\ pc = "filters"
    /\ op \notin applied
    /\ entry = "analyze" => op = MainOrder[Cardinality(applied) + 1]
    /\ \E arg \in FilterValues(op) :
          /\ entry = "analyze" => arg = args[op]
          /\ LET result == ApplyFilter(op, df, arg)
             IN  IF result.raised = None
                 THEN /\ df' = result.value[1]
                      /\ last' = [op |-> op, arg |-> arg, input |-> df,
                                  output |-> result.value[1], raised |-> None]
                      /\ log' = IF Applies(op, arg) THEN Append(log, PrintEvent("filter", op))
                                ELSE log
                      /\ applied' = applied \cup {op}
                      /\ UNCHANGED <<pc, exit_status>>
                 ELSE /\ last' = [op |-> op, arg |-> arg, input |-> df,
                                  output |-> df, raised |-> result.raised]
                      /\ pc' = "done"
                      /\ IF entry = "analyze"
                         THEN /\ log' = Append(log, PrintEvent("traceback", 0))
                              /\ exit_status' = Some(1)
                         ELSE UNCHANGED <<log, exit_status>>
                      /\ UNCHANGED <<df, applied>>
          /\ args' = [args EXCEPT ![op] = arg]
    /\ UNCHANGED <<entry, num_pages, page_num, url, retry, attempt, soup, books,
                   book_idx, all_books, calls, csv, csv_writes>>
    /\ UNCHANGED <<loaded, out>>

filter_price == Filter("price")
filter_keyword == Filter("keyword")
filter_rating == Filter("rating")

\* sort_data is called on the filtered table: by main with
\* ascending = (args.order == 'asc'), or directly
sort ==
    /\ pc = "filters"
    /\ applied = Filters
    /\ \E by \in SortFields : \E ascending \in BOOLEAN :
          /\ entry = "analyze" =>
                args.sort = Some(by) /\ ascending = (args.order = Some("asc"))
          /\ \E result \in sort_data(df, by, ascending) :
                /\ df' = result
                /\ last' = [op |-> "sort", arg |-> <<by, ascending>>,
                            input |-> df, output |-> result, raised |-> None]
          /\ log' = IF by \in Columns THEN Append(log, PrintEvent("sort", by)) ELSE log
    /\ pc' = "display"
    /\ UNCHANGED <<entry, num_pages, page_num, url, retry, attempt, soup, books,
                   book_idx, all_books, calls, csv, csv_writes, exit_status>>
    /\ UNCHANGED <<loaded, args, applied, out>>

\* display_results is called on the sorted table; it is the last thing main does
display ==
    /\ pc = "display"
    /\ \E top_n \in Tops :
          /\ entry = "analyze" => args.top = Some(top_n)
          /\ out' = Some(display_results(df, top_n))
          /\ last' = [op |-> "display", arg |-> top_n, input |-> df, output |-> df,
                      raised |-> IF display_results(df, top_n).raised
                                 THEN Some("TypeError") ELSE None]
          /\ exit_status' =
                IF entry # "analyze" THEN exit_status
                ELSE IF display_results(df, top_n).raised THEN Some(1) ELSE Some(0)
    /\ pc' = "done"
    /\ UNCHANGED <<entry, num_pages, page_num, url, retry, attempt, soup, books,
                   book_idx, all_books, log, calls, csv, csv_writes>>
    /\ UNCHANGED <<df, loaded, args, applied>>

-----------------------------------------------------------------------------
(* Initial states and specifications *)

NoFrame == DataFrame(<<>>, "object")
NoArgs == [price |-> None, keyword |-> None, rating |-> None,
           sort |-> None, order |-> None, top |-> None]
NoCall == [op |-> "none", arg |-> None, input |-> NoFrame, output |-> NoFrame,
           raised |-> None]

InitReporterIdle ==
    /\ df = NoFrame /\ loaded = NoFrame /\ args = NoArgs /\ applied = {}
    /\ last = NoCall /\ out = None

InitCollectorIdle ==
    /\ num_pages = 0 /\ page_num = 1 /\ url = <<>> /\ retry = DefaultRetry
    /\ attempt = 0 /\ soup = None /\ books = <<>> /\ book_idx = 1
    /\ all_books = <<>> /\ log = <<>> /\ calls = <<>> /\ csv = None
    /\ csv_writes = 0 /\ exit_status = None

\* a call fetch_page(url, retry=M)
InitFetch ==
    /\ entry = "fetch_page"
    /\ pc = "fetch_page"
    /\ url \in {PageUrl(base_url, n) : n \in 1..MaxPages}
    /\ retry \in 0..MaxRetry
    /\ num_pages = 0 /\ page_num = 1
    /\ attempt = 0 /\ soup = None /\ books = <<>> /\ book_idx = 1
    /\ all_books = <<>> /\ log = <<>> /\ calls = <<>> /\ csv = None
    /\ csv_writes = 0 /\ exit_status = None
    /\ InitReporterIdle

NextFetch == fetch_page_ok \/ fetch_page_fail \/ fetch_page_end

SpecFetch == InitFetch /\ [][NextFetch]_vars

\* a run of the Collector with --pages N
InitCollector ==
    /\ entry = "parser"
    /\ pc = "parse_books"
    /\ num_pages \in 0..MaxPages
    /\ page_num = 1 /\ url = <<>> /\ retry = DefaultRetry
    /\ attempt = 0 /\ soup = None /\ books = <<>> /\ book_idx = 1
    /\ all_books = <<>> /\ log = <<>> /\ calls = <<>> /\ csv = None
    /\ csv_writes = 0 /\ exit_status = None
    /\ InitReporterIdle

NextCollector ==
    \/ parse_books_page
    \/ fetch_page_ok
    \/ fetch_page_fail
    \/ parse_books_skip
    \/ parse_books_find_all
    \/ parse_books_book
    \/ parse_books_page_end
    \/ parse_books_return
    \/ main_no_data
    \/ main_save

SpecCollector == InitCollector /\ [][NextCollector]_vars

\* the Collector is one sequential thread: a step that can be taken is taken
FairCollector == SpecCollector /\ WF_vars(NextCollector)

\* a run of the Reporter: of its main ("analyze"), or of a caller that loads
\* a file with load_data and calls the functions itself ("functions")
InitReporter ==
    /\ entry \in {"analyze", "functions"}
    /\ pc = IF entry = "analyze" THEN "parse_args" ELSE "load_data"
    /\ InitReporterIdle
    /\ InitCollectorIdle

NextReporter ==
    \/ parse_args
    \/ load_data_missing
    \/ load_data_unreadable
    \/ load_data_ok
    \/ filter_price
    \/ filter_keyword
    \/ filter_rating
    \/ sort
    \/ display

SpecReporter == InitReporter /\ [][NextReporter]_vars

-----------------------------------------------------------------------------
(* Reading the log *)

IsGet(e) == e.ev = "GET"
IsFailedGet(e) == e.ev = "GET" /\ ~e.ok
IsOkGet(e) == e.ev = "GET" /\ e.ok
IsSleep(e, secs) == e.ev = "sleep" /\ e.secs = secs
IsPrint(e, msg) == e.ev = "print" /\ e.msg = msg

Gets == Indices(log, IsGet)
FailedGets == Indices(log, IsFailedGet)
OkGets == Indices(log, IsOkGet)
RetrySleeps == {i \in 1..Len(log) : IsSleep(log[i], RetryDelay)}
AttemptLines == {i \in 1..Len(log) : IsPrint(log[i], "attempt")}

\* the records of a document's items whose extraction raises nothing, in
\* document order
Kept(doc) ==
    LET good == SelectSeq(doc, LAMBDA b : TryBlock[b].failure = None)
    IN  [i \in 1..Len(good) |-> TryBlock[good[i]].record[1]]

\* the documents the successful GETs returned, in order
FetchedDocuments ==
    LET oks == SelectSeq(log, IsOkGet)
    IN  [i \in 1..Len(oks) |-> Documents[oks[i].resp]]

-----------------------------------------------------------------------------
(* Claims about the Collector *)

\* C1: fetch_page(url, retry=M) makes at most M GET attempts; a successful
\* attempt is the last thing it does and its document is what it returns; it
\* returns None exactly when all M attempts failed; every failed attempt is
\* followed by exactly one attempt line carrying its number; the retry delay
\* is slept exactly once between two consecutive attempts and never after the
\* last one.
C1_FetchPageRetries ==
    /\ Cardinality(Gets) <= retry
    /\ \A i \in OkGets :
          /\ i = Len(log)
          /\ pc = "done"
          /\ soup = Some(Documents[log[i].resp])
    /\ pc = "done" =>
          /\ soup = None <=> OkGets = {}
          /\ soup = None <=> Cardinality(FailedGets) = retry
    /\ Cardinality(AttemptLines) = Cardinality(FailedGets)
    /\ \A i \in FailedGets :
          /\ i < Len(log)
          /\ IsPrint(log[i + 1], "attempt")
          /\ log[i + 1].n = Cardinality({j \in Gets : j <= i})
    /\ \A i \in 1..Len(log) : log[i].ev = "sleep" => log[i].secs = RetryDelay
    /\ \A i \in RetrySleeps :
          /\ pc = "done" => i < Len(log)
          /\ i < Len(log) => IsGet(log[i + 1])
    /\ \A i \in Gets : \A j \in Gets :
          (i < j /\ ~\E k \in Gets : i < k /\ k < j)
             => Cardinality({k \in RetrySleeps : i < k /\ k < j}) = 1

\* a fetch with retry=3 that failed three times: three attempt lines, two delays
C1_Witness ==
    /\ entry = "fetch_page" /\ pc = "done" /\ retry = DefaultRetry
    /\ soup = None
    /\ Cardinality(AttemptLines) = 3
    /\ Cardinality(RetrySleeps) = 2

\* C2: in parse_books(base_url, N) the fetch_page calls made so far are for
\* the pages 1, 2, ... in increasing order, one call each, with the page's URL;
\* when the page loop is over every page 1..N has been called for, whatever
\* pages failed; and the run eventually finishes.
C2_CallsInOrder ==
    /\ Len(calls) <= num_pages
    /\ \A i \in 1..Len(calls) :
          calls[i].page = i /\ calls[i].url = PageUrl(base_url, i)
    /\ pc \in {"main", "done"} => Len(calls) = num_pages

C2_EveryPageOnceAndFinishes == []C2_CallsInOrder /\ <>(pc = "done")

\* a finished run of at least two pages whose first page failed all retries
C2_Witness ==
    /\ entry = "parser" /\ pc = "done" /\ num_pages >= 2
    /\ Len(calls) = num_pages
    /\ Len(log) >= 10 /\ IsPrint(log[10], "gave_up")
    /\ OkGets # {}

\* C3: a pacing delay of 1 time unit precedes every page request but the
\* first, whether the earlier page's fetch succeeded or failed all retries:
\* the line announcing page k >= 2 (printed right before its fetch) comes
\* right after a sleep of PageDelay.
C3_PacingDelayRegardlessOfOutcome ==
    \A i \in 2..Len(log) :
        IsPrint(log[i], "page") => IsSleep(log[i - 1], PageDelay)

\* C4: the accumulated sequence is exactly the records of the items whose
\* extraction raised nothing, page by page and in document order: the items
\* of the pages done, then those of the current page's items already visited.
\* An item whose extraction raises adds nothing and removes nothing.
C4_PerItemIsolation ==
    entry = "parser" =>
        LET docs == FetchedDocuments
            done == IF pc \in {"after_fetch", "books"} /\ soup # None
                    THEN SubSeq(docs, 1, Len(docs) - 1) ELSE docs
            current == IF pc = "books" THEN SubSeq(books, 1, book_idx - 1) ELSE <<>>
        IN  all_books = Concat([i \in 1..Len(done) |-> Kept(done[i])]) \o Kept(current)

\* a finished run that fetched the document with two malformed and two
\* well-formed items, and then the document whose price texts are "nan" and
\* "1e2", which float() accepts
C4_Witness ==
    /\ entry = "parser" /\ pc = "done"
    /\ \E i \in OkGets : \E j \in OkGets :
          /\ i < j
          /\ Documents[log[i].resp] = <<BookBadPrice, BookLight, BookNoTitle, BookSharp>>
          /\ Documents[log[j].resp] = <<BookNanPrice, BookExpPrice>>
    /\ Len(all_books) = 4
    /\ all_books[3].price.kind = "nan"
    /\ all_books[4].price = [kind |-> "finite", sign |-> 1, digits |-> 1, exp |-> 2]
    /\ \E i \in 1..Len(log) : IsPrint(log[i], "book_error") /\ log[i].n = "price"
    /\ \E i \in 1..Len(log) : IsPrint(log[i], "book_error") /\ log[i].n = "title"

\* C5: nothing is written and no status is set before the page loop is over;
\* at the end of the run an empty accumulated sequence gives a non-zero exit
\* status and no CSV, and a non-empty one is written exactly once, whole and
\* in order, under the header row.
C5_EmptyRunFails ==
    entry = "parser" =>
        /\ pc # "done" => csv = None /\ csv_writes = 0 /\ exit_status = None
        /\ csv_writes > 0 => page_num > num_pages /\ Len(calls) = num_pages
        /\ pc = "done" =>
              IF all_books = <<>>
              THEN exit_status # None /\ exit_status[1] # 0
                   /\ csv = None /\ csv_writes = 0
              ELSE /\ exit_status = Some(0)
                   /\ csv_writes = 1
                   /\ csv # None
                   /\ Len(csv[1]) = Len(all_books) + 1
                   /\ csv[1][1] = CsvHeader
                   /\ \A i \in 1..Len(all_books) :
                         csv[1][i + 1] = <<all_books[i].title, all_books[i].price,
                                           all_books[i].rating, all_books[i].link>>

\* a run that fetched a page, every item of which was dropped, and ended
\* with status 1 and no CSV
C5_Witness ==
    /\ entry = "parser" /\ pc = "done" /\ num_pages >= 1
    /\ OkGets # {}
    /\ \A i \in OkGets : Documents[log[i].resp] = <<BookNoLink, BookNoRating, BookNoPrice>>
    /\ all_books = <<>> /\ exit_status = Some(1) /\ csv = None

-----------------------------------------------------------------------------
(* Claims about the Reporter *)

\* the k-th smallest element of a set of numbers
Nth(S, k) == CHOOSE i \in S : Cardinality({j \in S : j < i}) = k - 1

\* whether s is t with some rows left out, the others in their order
IsSubsequence(s, t) ==
    \E S \in SUBSET (1..Len(t)) :
        /\ Cardinality(S) = Len(s)
        /\ \A k \in 1..Len(s) : s[k] = t[Nth(S, k)]

\* the six orders in which the three filters can be called
FilterOrders ==
    {o \in [1..3 -> Filters] : \A i \in 1..3 : \A j \in 1..3 : o[i] = o[j] => i = j}

\* the filter named op called on what an earlier call returned; an exception
\* raised earlier is the outcome
Then(outcome, op, arg) ==
    IF outcome.raised # None THEN outcome ELSE ApplyFilter(op, outcome.value[1], arg)

\* the three filters called in the order o on frame, with the arguments a
Pipeline(o, frame, a) ==
    Then(Then(ApplyFilter(o[1], frame, a[o[1]]), o[2], a[o[2]]), o[3], a[o[3]])

\* C6: filter_by_price(df, P) called with a threshold P returns exactly the
\* records of df whose price is <= P, in their order.
C6_PriceFilterExact ==
    (last.op = "price" /\ last.arg # None) =>
        /\ \A i \in 1..Len(last.output.rows) : last.output.rows[i].price <= last.arg[1]
        /\ IsSubsequence(last.output.rows, last.input.rows)
        /\ Len(last.output.rows) =
              Cardinality({i \in 1..Len(last.input.rows) :
                              last.input.rows[i].price <= last.arg[1]})

\* C7: whatever values are given or absent, the table left by the three
\* filters is the one every one of the six orders of calling them gives; each
\* filter returns, and what it returns is a subsequence of its input; a filter
\* whose value is absent returns its input unchanged.
C7_FiltersOrderInsensitive ==
    /\ (pc = "filters" /\ applied = Filters) =>
          \A o \in FilterOrders : Pipeline(o, loaded, args) = Returned(df)
    /\ last.op \in Filters =>
          /\ last.raised = None
          /\ IsSubsequence(last.output.rows, last.input.rows)
          /\ last.arg = None => last.output = last.input

\* the rows of table in key order, rows of equal key in their original order
StableSorted(table, by, ascending) ==
    LET n == Len(table)
        Before(a, b) == IF ascending THEN KeyLessEq(table[a], table[b], by)
                        ELSE KeyLessEq(table[b], table[a], by)
        p == CHOOSE q \in Arrangements(n) :
                \A i \in 1..n : \A j \in 1..n : i < j =>
                    /\ Before(q[i], q[j])
                    /\ Before(q[j], q[i]) => q[i] < q[j]
    IN  [i \in 1..n |-> table[p[i]]]

Reverse(s) == [i \in 1..Len(s) |-> s[Len(s) + 1 - i]]

\* C8: sort_data by price or rating returns the rows in key order in the
\* requested direction, rows of equal key keeping their original relative
\* order; the prices of an ascending and of a descending sort by price are
\* reverses of each other.
C8_SortStable ==
    (last.op = "sort" /\ last.arg[1] \in {"price", "rating"}) =>
        /\ last.output.rows = StableSorted(last.input.rows, last.arg[1], last.arg[2])
        /\ \A up \in sort_data(last.input, "price", TRUE) :
              \A down \in sort_data(last.input, "price", FALSE) :
                  Column(up.rows, "price") = Reverse(Column(down.rows, "price"))

\* C9 as amended: sort_data called with a field name that is not a column of
\* the table returns the table unchanged.
C9_UnknownColumnNoOp ==
    (last.op = "sort" /\ last.arg[1] \notin Columns) =>
        last.raised = None /\ last.output = last.input /\ df = last.input

\* C9 as stated: sort_data called with a field name other than price and
\* rating returns the table unchanged.
C9_NonNumericFieldNoOp ==
    (last.op = "sort" /\ last.arg[1] \notin {"price", "rating"}) =>
        last.output = last.input

\* sort_data called with the field "name", ascending, on rows that are in
\* neither price nor title order, and returning them as they were
C9_Witness ==
    /\ last.op = "sort" /\ last.arg = <<"name", TRUE>>
    /\ last.input.rows = <<RowUntitled, RowSharp>>
    /\ df = last.input

\* C10: on a non-empty table display_results renders the first rows, at most
\* cap of them, and prints the match count and the statistics of the whole
\* table; on an empty table it prints the notice and nothing else.  (Stated
\* for tables without a missing title.)
C10_DisplayCap ==
    (out # None /\ \A i \in 1..Len(df.rows) : df.rows[i].title # NA) =>
        LET o == out[1]
            cap == last.arg
            table == df.rows
        IN  IF table = <<>>
            THEN o.notice /\ ~o.raised /\ o.table = <<>> /\ o.stats = None
            ELSE /\ ~o.notice /\ ~o.raised
                 /\ Len(o.table) <= (IF cap > 0 THEN cap ELSE 0)
                 /\ Len(o.table) <= Len(table)
                 /\ \A i \in 1..Len(o.table) :
                       /\ o.table[i].rating = table[i].rating
                       /\ o.table[i].price = FormatPrice(table[i].price)
                 /\ o.found = Some(Len(table))
                 /\ o.shown = Some(Len(o.table))
                 /\ o.stats # None
                 /\ o.stats[1].mean_price.count = Len(table)
                 /\ o.stats[1].mean_price.sum = SumSeq(Column(table, "price"))
                 /\ o.stats[1].mean_rating.sum = SumSeq(Column(table, "rating"))
                 /\ \A i \in 1..Len(table) :
                       /\ o.stats[1].min_price <= table[i].price
                       /\ o.stats[1].max_price >= table[i].price

=============================================================================
